---- MODULE Spec2Model ----
(***************************************************************************)
(* Model of the matching engine of backlog_enricher (match.py): the        *)
(* decision procedure decide_match and the helpers it calls.               *)
(*                                                                         *)
(* Representation.                                                         *)
(*   - A Python str is a sequence of one-character strings, so that        *)
(*     splitting, substring search and edit distance are computed.         *)
(*   - An Optional value is None == <<>> or Some(x) == <<x>>.              *)
(*   - A similarity score (a float in 0..100) is the exact fraction        *)
(*     <<n, d>> in lowest terms, d > 0.                                    *)
(*   - A confidence (a float in 0..1) is an integer number of 1/10000.     *)
(***************************************************************************)
EXTENDS Integers, Sequences, FiniteSets, TLC

(***************************************************************************)
(* Optional values                                                         *)
(***************************************************************************)
None == <<>>

Some(x) == <<x>>

IsNone(o) == o = <<>>

Val(o) == o[1]

(***************************************************************************)
(* Strings                                                                 *)
(***************************************************************************)
Alphabet == <<" ", "0", "1", "2", "3", "4", "5", "6", "7", "8", "9",
              "a", "b", "c", "d", "e", "f", "g", "h", "i", "j", "k", "l", "m",
              "n", "o", "p", "q", "r", "s", "t", "u", "v", "w", "x", "y", "z">>

\* code point order of the characters a normalized title is made of
Ord(c) == CHOOSE i \in 1..Len(Alphabet) : Alphabet[i] = c

Max2(a, b) == IF a >= b THEN a ELSE b

Abs(x) == IF x < 0 THEN -x ELSE x

RECURSIVE Gcd(_, _)
Gcd(a, b) == IF b = 0 THEN a ELSE Gcd(b, a % b)

\* str < str, as Python compares them (used by sorted())
RECURSIVE StrLess(_, _)
StrLess(s, t) ==
    IF t = <<>> THEN FALSE
    ELSE IF s = <<>> THEN TRUE
    ELSE IF Ord(Head(s)) # Ord(Head(t)) THEN Ord(Head(s)) < Ord(Head(t))
    ELSE StrLess(Tail(s), Tail(t))

\* `needle in haystack` for two str
StrContains(haystack, needle) ==
    \E i \in 1..(Len(haystack) - Len(needle) + 1) :
        SubSeq(haystack, i, i + Len(needle) - 1) = needle

\* str.split(): the maximal runs of non-blank characters, as a set
RECURSIVE SplitFrom(_, _, _)
SplitFrom(s, i, word) ==
    IF i > Len(s) THEN (IF word = <<>> THEN {} ELSE {word})
    ELSE IF s[i] = " "
         THEN (IF word = <<>> THEN {} ELSE {word}) \cup SplitFrom(s, i + 1, <<>>)
         ELSE SplitFrom(s, i + 1, Append(word, s[i]))

TokenSet(s) == SplitFrom(s, 1, <<>>)

\* " ".join(sorted(tokens))
RECURSIVE SortedJoin(_)
SortedJoin(tokens) ==
    IF tokens = {} THEN <<>>
    ELSE LET first == CHOOSE w \in tokens : \A v \in tokens \ {w} : StrLess(w, v)
             rest  == tokens \ {first}
         IN  IF rest = {} THEN first ELSE first \o <<" ">> \o SortedJoin(rest)

\* len(" ".join(tokens)), which does not depend on the order of the tokens
RECURSIVE JoinedLen(_)
JoinedLen(tokens) ==
    IF tokens = {} THEN 0
    ELSE LET w == CHOOSE v \in tokens : TRUE
             rest == tokens \ {w}
         IN  Len(w) + (IF rest = {} THEN 0 ELSE 1 + JoinedLen(rest))

(***************************************************************************)
(* rapidfuzz.fuzz.token_set_ratio                                          *)
(***************************************************************************)
\* one row of the longest-common-subsequence table: row i from row i-1
RECURSIVE LcsRow(_, _, _, _)
LcsRow(prev, ch, t, cur) ==
    LET j == Len(cur)
    IN  IF j > Len(t) THEN cur
        ELSE LcsRow(prev, ch, t,
                    Append(cur, IF ch = t[j] THEN prev[j] + 1
                                ELSE Max2(prev[j + 1], cur[j])))

RECURSIVE LcsRows(_, _, _, _)
LcsRows(s, t, i, prev) ==
    IF i > Len(s) THEN prev[Len(t) + 1]
    ELSE LcsRows(s, t, i + 1, LcsRow(prev, s[i], t, <<0>>))

LcsLen(s, t) == LcsRows(s, t, 1, [j \in 1..(Len(t) + 1) |-> 0])

\* insertions + deletions turning s into t
IndelDistance(s, t) == Len(s) + Len(t) - 2 * LcsLen(s, t)

\* the fraction n/d in lowest terms
Frac(n, d) == LET g == Gcd(n, d) IN <<n \div g, d \div g>>

ScoreLeq(a, b) == a[1] * b[2] <= b[1] * a[2]

ScoreLess(a, b) == a[1] * b[2] < b[1] * a[2]

ScoreMax(a, b) == IF ScoreLeq(a, b) THEN b ELSE a

\* score >= an integer threshold
ScoreAtLeast(score, threshold) == score[1] >= threshold * score[2]

\* 100 - 100 * dist / lensum
NormDistance(dist, lensum) ==
    IF lensum = 0 THEN <<100, 1>> ELSE Frac(100 * (lensum - dist), lensum)

\* the ratios once the tokens are split into common and differing ones:
\* the two joined differences and the length of the joined intersection
DiffRatio(diff_ab_joined, diff_ba_joined, sect_len) ==
    LET ab_len == Len(diff_ab_joined)
        ba_len == Len(diff_ba_joined)
        sep == IF sect_len # 0 THEN 1 ELSE 0
        sect_ab_len == sect_len + sep + ab_len
        sect_ba_len == sect_len + sep + ba_len
        result == NormDistance(IndelDistance(diff_ab_joined, diff_ba_joined),
                               sect_ab_len + sect_ba_len)
        sect_ab_ratio == NormDistance(sep + ab_len, sect_len + sect_ab_len)
        sect_ba_ratio == NormDistance(sep + ba_len, sect_len + sect_ba_len)
    IN  IF sect_len = 0 THEN result
        ELSE ScoreMax(result, ScoreMax(sect_ab_ratio, sect_ba_ratio))

TokenSetsRatio(tokens_a, tokens_b) ==
    IF tokens_a = {} \/ tokens_b = {} THEN <<0, 1>>
    ELSE IF tokens_a \cap tokens_b # {} /\ (tokens_a \subseteq tokens_b \/ tokens_b \subseteq tokens_a)
    THEN <<100, 1>>
    ELSE DiffRatio(SortedJoin(tokens_a \ tokens_b), SortedJoin(tokens_b \ tokens_a),
                   JoinedLen(tokens_a \cap tokens_b))

token_set_ratio(s1, s2) ==
    IF s1 = <<>> \/ s2 = <<>> THEN <<0, 1>>
    ELSE TokenSetsRatio(TokenSet(s1), TokenSet(s2))

\* round(score / 100, 4) in units of 1/10000, halves rounded to even
RoundConfidence(score) ==
    LET n == 100 * score[1]
        d == score[2]
        q == n \div d
        r == n % d
    IN  IF 2 * r < d THEN q
        ELSE IF 2 * r > d THEN q + 1
        ELSE IF q % 2 = 0 THEN q ELSE q + 1

(***************************************************************************)
(* Inputs of decide_match                                                  *)
(***************************************************************************)
\* the longest candidate list drawn
MaxCandidates == 2

HollowKnight == <<"h","o","l","l","o","w"," ","k","n","i","g","h","t">>

\* a misspelling: similarity 92.3 to HollowKnight
HollowKnigth == <<"h","o","l","l","o","w"," ","k","n","i","g","t","h">>

\* "remakes" survives norm_title, which removes whole words only
HollowKnightRemakes == HollowKnight \o <<" ","r","e","m","a","k","e","s">>

\* similarity 35.3 to HollowKnight
Halo == <<"h","a","l","o">>

\* norm_title of a title made of edition markers only, e.g. "HD"
EmptyTitle == <<>>

GameTitles == {HollowKnight}

CandidateTitles == {HollowKnight, HollowKnigth, HollowKnightRemakes, Halo, EmptyTitle}

Years == {None, Some(2017), Some(2018)}

FamilySets == {{}, {"pc"}, {"playstation"}}

\* HLTBCandidate.platforms of a candidate whose family set is fams
PlatformsOf(fams) ==
    IF fams = {} THEN <<>>
    ELSE IF fams = {"pc"} THEN <<"PC">>
    ELSE <<"PlayStation">>

GameRows ==
    {[id |-> 1, title_norm |-> t, platform_family |-> pf, year |-> y] :
        t \in GameTitles, pf \in {None, Some("pc")}, y \in {None, Some(2017)}}

CandidateView(t, fams, y) ==
    [candidate |-> [title |-> t, platforms |-> PlatformsOf(fams), year |-> y],
     title_norm |-> t, families |-> fams]

\* every family set and year for the titles that can be accepted, and one
\* representative of each other title
CandidateViews ==
    {CandidateView(t, fams, y) :
        t \in {HollowKnight, HollowKnigth}, fams \in FamilySets, y \in Years}
    \cup {CandidateView(t, {"pc"}, Some(2017)) :
        t \in {HollowKnightRemakes, Halo, EmptyTitle}}

RECURSIVE ListsUpTo(_, _)
ListsUpTo(S, n) ==
    IF n = 0 THEN {<<>>}
    ELSE LET shorter == ListsUpTo(S, n - 1)
         IN  shorter \cup {Append(l, x) : l \in {k \in shorter : Len(k) = n - 1}, x \in S}

CandidateLists == ListsUpTo(CandidateViews, MaxCandidates)

\* <<fuzzy_auto, fuzzy_queue_min>>: the defaults, the test's, and a zero minimum
Thresholds == {<<95, 90>>, <<90, 80>>, <<90, 0>>}

MatchConfigs ==
    {[fuzzy_auto |-> th[1], fuzzy_queue_min |-> th[2],
      year_tolerance |-> tol, require_platform_overlap |-> req] :
        th \in Thresholds, tol \in {0, 1}, req \in BOOLEAN}

\* fuzz.token_set_ratio(game.title_norm, candidate.title_norm), tabulated once
\* over the titles drawn
TitleScores ==
    [s1 \in GameTitles |-> [s2 \in CandidateTitles |-> token_set_ratio(s1, s2)]]

similarity(s1, s2) == TitleScores[s1][s2]

(***************************************************************************)
(* match.py                                                                *)
(***************************************************************************)
\* Decision(status, method=None, confidence=0.0, candidate=None,
\*          reason=None, queue_payload=None)
Decision(status, method, confidence, candidate, reason, queue_payload) ==
    [status |-> status, method |-> method, confidence |-> confidence,
     candidate |-> candidate, reason |-> reason, queue_payload |-> queue_payload]

\* plausible slip: `abs((game_year or 0) - (candidate_year or 0))`, a missing
\* year counted as year 0
_year_distance_zero_default(game_year, candidate_year) ==
    Abs((IF IsNone(game_year) THEN 0 ELSE Val(game_year))
        - (IF IsNone(candidate_year) THEN 0 ELSE Val(candidate_year)))

_year_distance(game_year, candidate_year) ==
    IF IsNone(game_year) \/ IsNone(candidate_year) THEN 0
    ELSE Abs(Val(game_year) - Val(candidate_year))

\* plausible slip: a candidate without families never overlaps
_platform_overlap_strict(game, candidate) ==
    IF IsNone(game.platform_family) THEN TRUE
    ELSE Val(game.platform_family) \in candidate.families

_platform_overlap(game, candidate) ==
    IF IsNone(game.platform_family) THEN TRUE
    ELSE IF candidate.families # {} THEN Val(game.platform_family) \in candidate.families
    ELSE TRUE

\* the list comprehension [c for c in candidates if P(c)], as the indices kept
Indices(candidates) == 1..Len(candidates)

collision_tokens ==
    { <<"r","e","m","a","k","e">>,
      <<"c","o","l","l","e","c","t","i","o","n">>,
      <<"r","e","m","a","s","t","e","r">>,
      <<"r","e","d","u","x">>,
      <<"d","e","f","i","n","i","t","i","v","e">> }

\* `if c.year`: None and 0 are both falsy
Truthy(year) == ~IsNone(year) /\ Val(year) # 0

\* more than one candidate carries the game's title and their years differ
TitleCollision(game, candidates) ==
    LET same_title == {i \in Indices(candidates) : candidates[i].title_norm = game.title_norm}
        years == {Val(candidates[i].candidate.year) :
                     i \in {k \in same_title : Truthy(candidates[k].candidate.year)}}
    IN  Cardinality(same_title) > 1 /\ Cardinality(years) > 1

\* plausible slip: `token in candidate.title_norm.split()`, whole words only
TokenCollisionWholeWords(candidates) ==
    \E i \in Indices(candidates) :
        \E token \in collision_tokens : token \in TokenSet(candidates[i].title_norm)

\* any(token in title_norm for token in collision_tokens), tabulated once over
\* the titles drawn
HasCollisionToken ==
    [t \in CandidateTitles |-> \E token \in collision_tokens : StrContains(t, token)]

\* the loop over the candidates that looks for a collision token
TokenCollision(candidates) ==
    \E i \in Indices(candidates) : HasCollisionToken[candidates[i].title_norm]

_detect_collision(game, candidates) ==
    IF TitleCollision(game, candidates) THEN TRUE
    ELSE TokenCollision(candidates)

ExactSurvivors(game, candidates) ==
    {i \in Indices(candidates) :
        /\ candidates[i].title_norm = game.title_norm
        /\ _year_distance(game.year, candidates[i].candidate.year) = 0
        /\ _platform_overlap(game, candidates[i])}

\* plausible slip: `if exacts:`, the first survivor of several is returned
_deterministic_exact_first(game, candidates) ==
    LET exacts == ExactSurvivors(game, candidates)
    IN  IF exacts # {}
        THEN Some(candidates[CHOOSE i \in exacts : \A k \in exacts : i <= k])
        ELSE None

_deterministic_exact(game, candidates) ==
    LET exacts == ExactSurvivors(game, candidates)
    IN  IF Cardinality(exacts) = 1
        THEN Some(candidates[CHOOSE i \in exacts : TRUE])
        ELSE None

\* plausible slip: `< tolerance` for `<= tolerance`
RelaxedSurvivorsStrict(game, candidates, tolerance) ==
    {i \in Indices(candidates) :
        /\ candidates[i].title_norm = game.title_norm
        /\ _year_distance(game.year, candidates[i].candidate.year) < tolerance
        /\ (IsNone(game.platform_family) \/ _platform_overlap(game, candidates[i]))}

RelaxedSurvivors(game, candidates, tolerance) ==
    {i \in Indices(candidates) :
        /\ candidates[i].title_norm = game.title_norm
        /\ _year_distance(game.year, candidates[i].candidate.year) <= tolerance
        /\ (IsNone(game.platform_family) \/ _platform_overlap(game, candidates[i]))}

\* plausible slip: `if matches:`, the first survivor of several is returned
_deterministic_relaxed_first(game, candidates, tolerance) ==
    LET matches == RelaxedSurvivors(game, candidates, tolerance)
    IN  IF matches # {}
        THEN Some(candidates[CHOOSE i \in matches : \A k \in matches : i <= k])
        ELSE None

_deterministic_relaxed(game, candidates, tolerance) ==
    LET matches == RelaxedSurvivors(game, candidates, tolerance)
    IN  IF Cardinality(matches) = 1
        THEN Some(candidates[CHOOSE i \in matches : TRUE])
        ELSE None

\* plausible slip: `if score >= best_score`, the last of several equal scores wins
RECURSIVE BestFromLastWins(_, _, _, _, _)
BestFromLastWins(game, candidates, i, best_score, best_index) ==
    IF i > Len(candidates) THEN <<best_score, best_index>>
    ELSE LET score == similarity(game.title_norm, candidates[i].title_norm)
         IN  IF ScoreLeq(best_score, score)
             THEN BestFromLastWins(game, candidates, i + 1, score, i)
             ELSE BestFromLastWins(game, candidates, i + 1, best_score, best_index)

\* the loop of _fuzzy_match: <<best_score, index of best_candidate or 0>>
RECURSIVE BestFrom(_, _, _, _, _)
BestFrom(game, candidates, i, best_score, best_index) ==
    IF i > Len(candidates) THEN <<best_score, best_index>>
    ELSE LET score == similarity(game.title_norm, candidates[i].title_norm)
         IN  IF ScoreLess(best_score, score)
             THEN BestFrom(game, candidates, i + 1, score, i)
             ELSE BestFrom(game, candidates, i + 1, best_score, best_index)

FuzzyBest(game, candidates) == BestFrom(game, candidates, 1, <<0, 1>>, 0)

\* plausible slip: the queue band is tested against fuzzy_auto again
FuzzyQueueAtAuto(has_best, best_score, config) ==
    has_best /\ ScoreAtLeast(best_score, config.fuzzy_auto)

\* `elif best_candidate and best_score >= config.fuzzy_queue_min`
FuzzyQueue(has_best, best_score, config) ==
    has_best /\ ScoreAtLeast(best_score, config.fuzzy_queue_min)

\* plausible slip: the year check comes before the platform check
_fuzzy_match_year_first(game, candidates, config) ==
    LET best == FuzzyBest(game, candidates)
        best_score == best[1]
        has_best == best[2] # 0
        best_candidate == candidates[best[2]]
    IN  IF has_best /\ ScoreAtLeast(best_score, config.fuzzy_auto)
        THEN IF _year_distance(game.year, best_candidate.candidate.year) > config.year_tolerance
             THEN Decision("queue", None, 0, None, Some("year_distance"), None)
             ELSE IF config.require_platform_overlap /\ ~_platform_overlap(game, best_candidate)
             THEN Decision("queue", None, 0, None, Some("platform_mismatch"), None)
             ELSE Decision("match", Some("fuzzy_auto"), RoundConfidence(best_score),
                           Some(best_candidate), None, None)
        ELSE IF FuzzyQueue(has_best, best_score, config)
        THEN Decision("queue", None, 0, None, Some("fuzzy_ambiguous"), None)
        ELSE Decision("skip", None, 0, None, Some("low_score"), None)

\* plausible slip: the accepted candidate is not attached to the decision
FuzzyAcceptNoCandidate(best_score, best_candidate) ==
    Decision("match", Some("fuzzy_auto"), RoundConfidence(best_score), None, None, None)

\* plausible slip: the accepted candidate is returned without its method
FuzzyAcceptNoMethod(best_score, best_candidate) ==
    Decision("match", None, RoundConfidence(best_score), Some(best_candidate), None, None)

\* the Decision of an automatic fuzzy acceptance
FuzzyAccept(best_score, best_candidate) ==
    Decision("match", Some("fuzzy_auto"), RoundConfidence(best_score),
             Some(best_candidate), None, None)

_fuzzy_match(game, candidates, config) ==
    LET best == FuzzyBest(game, candidates)
        best_score == best[1]
        has_best == best[2] # 0
        best_candidate == candidates[best[2]]
    IN  IF has_best /\ ScoreAtLeast(best_score, config.fuzzy_auto)
        THEN IF config.require_platform_overlap /\ ~_platform_overlap(game, best_candidate)
             THEN Decision("queue", None, 0, None, Some("platform_mismatch"), None)
             ELSE IF _year_distance(game.year, best_candidate.candidate.year) > config.year_tolerance
             THEN Decision("queue", None, 0, None, Some("year_distance"), None)
             ELSE FuzzyAccept(best_score, best_candidate)
        ELSE IF FuzzyQueue(has_best, best_score, config)
        THEN Decision("queue", None, 0, None, Some("fuzzy_ambiguous"), None)
        ELSE Decision("skip", None, 0, None, Some("low_score"), None)

\* scored.sort(key=score, reverse=True): a stable sort, so among equal scores
\* the earlier candidate comes first.  Rank(i) is the number of candidates
\* placed before candidate i.
Scored(game, candidates) ==
    [i \in Indices(candidates) |-> similarity(game.title_norm, candidates[i].title_norm)]

\* plausible slip: reverse=True is left out, the lowest score comes first
SortedIndicesAscending(scored) ==
    LET n == Len(scored)
        before(k, i) == ScoreLess(scored[k], scored[i]) \/ (scored[k] = scored[i] /\ k < i)
        rank(i) == Cardinality({k \in 1..n : before(k, i)})
    IN  [p \in 1..n |-> CHOOSE i \in 1..n : rank(i) = p - 1]

SortedIndices(scored) ==
    LET n == Len(scored)
        before(k, i) == ScoreLess(scored[i], scored[k]) \/ (scored[k] = scored[i] /\ k < i)
        rank(i) == Cardinality({k \in 1..n : before(k, i)})
    IN  [p \in 1..n |-> CHOOSE i \in 1..n : rank(i) = p - 1]

\* plausible slip: scored[5:], the entries after the fifth
TopFiveDropped(order) == SubSeq(order, 6, Len(order))

\* scored[:5]
TopFive(order) == SubSeq(order, 1, IF Len(order) < 5 THEN Len(order) ELSE 5)

PayloadEntry(cand, score) ==
    [title |-> cand.candidate.title, title_norm |-> cand.title_norm, score |-> score,
     year |-> cand.candidate.year, platforms |-> cand.candidate.platforms]

_queue_decision(game, candidates, config, reason) ==
    LET scored == Scored(game, candidates)
        order == SortedIndices(scored)
        top == TopFive(order)
        payload == [p \in 1..Len(top) |-> PayloadEntry(candidates[top[p]], scored[top[p]])]
    IN  Decision("queue", None, 0, None,
                 IF IsNone(reason) THEN Some("ambiguous") ELSE reason,
                 Some(payload))

\* plausible slip: the guard for an empty candidate list is missing
NoCandidatesUnchecked(candidates) == FALSE

\* `if not candidates`
NoCandidates(candidates) == candidates = <<>>

\* plausible slip: only a fuzzy-stage queue is re-wrapped, a skip is returned as is
QueueFallbackKeepsSkip(game, candidates, config, fuzzy) ==
    IF fuzzy.status = "skip" THEN fuzzy
    ELSE _queue_decision(game, candidates, config, fuzzy.reason)

\* the final return of decide_match: every fuzzy-stage non-match is queued
QueueFallback(game, candidates, config, fuzzy) ==
    _queue_decision(game, candidates, config, fuzzy.reason)

\* decide_match together with the stages it ran, in the order it ran them
decide_run(game, candidates, config) ==
    LET exact == _deterministic_exact(game, candidates)
        relaxed == _deterministic_relaxed(game, candidates, config.year_tolerance)
        fuzzy == _fuzzy_match(game, candidates, config)
    IN  IF NoCandidates(candidates)
        THEN [decision |-> Decision("skip", None, 0, None, Some("no_candidates"), None),
              stages |-> <<>>]
        ELSE IF _detect_collision(game, candidates)
        THEN [decision |-> _queue_decision(game, candidates, config, Some("collision")),
              stages |-> <<"collision">>]
        ELSE IF ~IsNone(exact)
        THEN [decision |-> Decision("match", Some("exact"), 10000, exact, None, None),
              stages |-> <<"collision", "exact">>]
        ELSE IF ~IsNone(relaxed)
        THEN [decision |-> Decision("match", Some("exact_relaxed"), 9500, relaxed, None, None),
              stages |-> <<"collision", "exact", "relaxed">>]
        ELSE IF fuzzy.status = "match"
        THEN [decision |-> fuzzy,
              stages |-> <<"collision", "exact", "relaxed", "fuzzy">>]
        ELSE [decision |-> QueueFallback(game, candidates, config, fuzzy),
              stages |-> <<"collision", "exact", "relaxed", "fuzzy">>]

decide_match(game, candidates, config) == decide_run(game, candidates, config).decision

\* plausible slip: candidates.sort(...) in place of sorting the new list scored
ArgumentSortedInPlace(candidates, order) ==
    [p \in 1..Len(order) |-> candidates[order[p]]]

\* _queue_decision appends to the new list scored and sorts that list: the
\* caller's list keeps its elements and their order
ArgumentAfterSort(candidates, order) == candidates

\* the caller's candidate list after decide_match has returned returned_decision:
\* only _queue_decision, which every queue decision comes from, handles a list
\* derived from it
CandidatesAfter(game, candidates, returned_decision) ==
    IF returned_decision.status = "queue"
    THEN ArgumentAfterSort(candidates, SortedIndices(Scored(game, candidates)))
    ELSE candidates

(***************************************************************************)
(* State machine: one call of decide_match                                 *)
(***************************************************************************)
VARIABLES game, candidates, config, decision, stages, again,
          games, hltb_results, matches, review_queue, logged, stats, last_command,
          items, index, review_dry_run, last_call,
          cache_files, fetched,
          errors,
          raw, normalized, renormalized

callvars == <<game, candidates, decision, stages, again>>

dbvars == <<games, hltb_results, matches, review_queue, logged, stats, last_command>>

\* the ReviewController (items, index, dry_run, the last call), the cache
\* directory of the HLTBClient and the fetches made for each query key, the
\* errors of run_validations, and the title handed to norm_title with its
\* result and the result normalized again
sessionvars == <<items, index, review_dry_run, last_call, cache_files, fetched, errors,
                 raw, normalized, renormalized>>

vars == <<game, candidates, config, decision, stages, again,
          games, hltb_results, matches, review_queue, logged, stats, last_command,
          items, index, review_dry_run, last_call, cache_files, fetched, errors,
          raw, normalized, renormalized>>

\* no review is open, no HLTBClient exists, run_validations and norm_title
\* have not been called
NoSession ==
    /\ items = <<>>
    /\ index = 0
    /\ review_dry_run = FALSE
    /\ last_call = None
    /\ cache_files = {}
    /\ fetched = <<>>
    /\ errors = None
    /\ raw = <<>>
    /\ normalized = None
    /\ renormalized = None

\* no database is open: decide_match is called on its own
NoDatabase ==
    /\ games = <<>>
    /\ hltb_results = <<>>
    /\ matches = <<>>
    /\ review_queue = <<>>
    /\ logged = {}
    /\ stats = None
    /\ last_command = "none"

Init ==
    /\ game \in GameRows
    /\ candidates \in CandidateLists
    /\ config \in MatchConfigs
    /\ decision = None
    /\ stages = <<>>
    /\ again = None
    /\ NoDatabase
    /\ NoSession

\* decision = decide_match(game, candidates, config)
Decide ==
    /\ IsNone(decision)
    /\ LET run == decide_run(game, candidates, config)
       IN  /\ decision' = Some(run.decision)
           /\ stages' = run.stages
           /\ candidates' = CandidatesAfter(game, candidates, run.decision)
    /\ UNCHANGED <<game, config, again>>
    /\ UNCHANGED dbvars
    /\ UNCHANGED sessionvars

Next == Decide

Spec == Init /\ [][Next]_vars

(***************************************************************************)
(* The database: match_games and store_manual_match over the tables games, *)
(* hltb_results, matches and review_queue                                  *)
(***************************************************************************)
\* HLTBQuery.key(): f"{title_norm}|{year or 0}|{platform_family or ''}", as the
\* triple of its three fields
QueryKey(title_norm, year, platform_family) ==
    <<title_norm,
      IF IsNone(year) THEN 0 ELSE Val(year),
      IF IsNone(platform_family) THEN "" ELSE Val(platform_family)>>

\* build_query(game.title_norm, game.year, game.platform_family).key()
GameKey(g) == QueryKey(g.title_norm, g.year, g.platform_family)

\* platform_family(platform.lower().strip()) of the platform names stored
PlatformFamilyOf == [p \in {"PC", "PlayStation"} |-> IF p = "PC" THEN "pc" ELSE "playstation"]

\* the candidates of a raw_json column as CandidateViews.  The titles stored
\* are lower-case words without markers, which norm_title returns as they are.
_load_candidates(raw_json) ==
    [i \in 1..Len(raw_json) |->
        [candidate |-> raw_json[i],
         title_norm |-> raw_json[i].title,
         families |-> {PlatformFamilyOf[raw_json[i].platforms[k]] :
                          k \in 1..Len(raw_json[i].platforms)}]]

\* store_results: the row written for a query, its columns taken from the
\* first candidate
ResultRow(id, title_norm, raw_json) ==
    IF raw_json = <<>>
    THEN [id |-> id, title |-> title_norm, platforms |-> <<>>, year |-> None,
          raw_json |-> raw_json]
    ELSE [id |-> id, title |-> raw_json[1].title, platforms |-> raw_json[1].platforms,
          year |-> raw_json[1].year, raw_json |-> raw_json]

\* the three tables a command writes
Tables(results, matched, queue) ==
    [hltb_results |-> results, matches |-> matched, review_queue |-> queue]

\* plausible slip: the DELETE FROM review_queue is left out
store_match_keeps_queue(db, game_id, key, candidate, method, confidence, decided_by) ==
    Tables(
        IF IsNone(db.hltb_results[key]) THEN db.hltb_results
        ELSE [db.hltb_results EXCEPT ![key] =
                 Some([Val(db.hltb_results[key]) EXCEPT !.title = candidate.title,
                                                        !.platforms = candidate.platforms,
                                                        !.year = candidate.year])],
        IF IsNone(db.hltb_results[key]) THEN db.matches
        ELSE [db.matches EXCEPT ![game_id] =
                 Some([hltb_id |-> Val(db.hltb_results[key]).id, confidence |-> confidence,
                       method |-> method, decided_by |-> decided_by])],
        db.review_queue)

\* store_match: UPDATE hltb_results ... WHERE query_key = ?; INSERT OR REPLACE
\* INTO matches SELECT ?, id, ... FROM hltb_results WHERE query_key = ?;
\* DELETE FROM review_queue WHERE game_id = ?
store_match(db, game_id, key, candidate, method, confidence, decided_by) ==
    Tables(
        IF IsNone(db.hltb_results[key]) THEN db.hltb_results
        ELSE [db.hltb_results EXCEPT ![key] =
                 Some([Val(db.hltb_results[key]) EXCEPT !.title = candidate.title,
                                                        !.platforms = candidate.platforms,
                                                        !.year = candidate.year])],
        IF IsNone(db.hltb_results[key]) THEN db.matches
        ELSE [db.matches EXCEPT ![game_id] =
                 Some([hltb_id |-> Val(db.hltb_results[key]).id, confidence |-> confidence,
                       method |-> method, decided_by |-> decided_by])],
        [db.review_queue EXCEPT ![game_id] = None])

\* INSERT OR REPLACE INTO review_queue (game_id, candidates_json) VALUES (?, ?)
_queue_review(db, game_id, payload) ==
    Tables(db.hltb_results, db.matches, [db.review_queue EXCEPT ![game_id] = Some(payload)])

\* round(score / 100, 4) if score else 0.0
ManualConfidence(score) == IF score[1] = 0 THEN 0 ELSE RoundConfidence(score)

store_manual_match(db, g, candidate_payload) ==
    store_match(db, g.id, GameKey(g),
                [title |-> candidate_payload.title,
                 platforms |-> candidate_payload.platforms,
                 year |-> candidate_payload.year],
                "manual", ManualConfidence(candidate_payload.score), "manual")

\* plausible slip: the WHERE m.game_id IS NULL is left out, every game is decided
AllGames(rows, matched) == {i \in 1..Len(rows) : TRUE}

\* SELECT ... FROM games g LEFT JOIN matches m ON g.id = m.game_id
\* WHERE m.game_id IS NULL, as the indices of the games selected
UnmatchedGames(rows, matched) == {i \in 1..Len(rows) : IsNone(matched[rows[i].id])}

\* decision.method or "auto"
MethodOrAuto(method) == IF IsNone(method) THEN "auto" ELSE Val(method)

\* LOG.info("match_decision", ...)
LogRecord(g, d) ==
    [game_id |-> g.id, status |-> d.status, method |-> d.method, reason |-> d.reason]

Counts(matched, queued, skipped) ==
    [matched |-> matched, queued |-> queued, skipped |-> skipped]

\* plausible slip: the counters are raised next to the writes, inside
\* `if not dry_run:`
MatchDecidedCountsWrites(run, g, d, dry_run) ==
    IF dry_run
    THEN [db |-> run.db, stats |-> run.stats, log |-> run.log \cup {LogRecord(g, d)}]
    ELSE IF d.status = "match" /\ ~IsNone(d.candidate)
    THEN [db |-> store_match(run.db, g.id, GameKey(g), Val(d.candidate).candidate,
                             MethodOrAuto(d.method), d.confidence, "auto"),
          stats |-> Counts(run.stats.matched + 1, run.stats.queued, run.stats.skipped),
          log |-> run.log \cup {LogRecord(g, d)}]
    ELSE IF d.status = "queue" /\ ~IsNone(d.queue_payload) /\ Val(d.queue_payload) # <<>>
    THEN [db |-> _queue_review(run.db, g.id, Val(d.queue_payload)),
          stats |-> Counts(run.stats.matched, run.stats.queued + 1, run.stats.skipped),
          log |-> run.log \cup {LogRecord(g, d)}]
    ELSE [db |-> run.db,
          stats |-> Counts(run.stats.matched, run.stats.queued, run.stats.skipped + 1),
          log |-> run.log \cup {LogRecord(g, d)}]

\* one round of the loop of match_games for the game g, from the decision d on
MatchDecided(run, g, d, dry_run) ==
    IF d.status = "match" /\ ~IsNone(d.candidate)
    THEN [db |-> IF dry_run THEN run.db
                 ELSE store_match(run.db, g.id, GameKey(g), Val(d.candidate).candidate,
                                  MethodOrAuto(d.method), d.confidence, "auto"),
          stats |-> Counts(run.stats.matched + 1, run.stats.queued, run.stats.skipped),
          log |-> run.log \cup {LogRecord(g, d)}]
    ELSE IF d.status = "queue" /\ ~IsNone(d.queue_payload) /\ Val(d.queue_payload) # <<>>
    THEN [db |-> IF dry_run THEN run.db
                 ELSE _queue_review(run.db, g.id, Val(d.queue_payload)),
          stats |-> Counts(run.stats.matched, run.stats.queued + 1, run.stats.skipped),
          log |-> run.log \cup {LogRecord(g, d)}]
    ELSE [db |-> run.db,
          stats |-> Counts(run.stats.matched, run.stats.queued, run.stats.skipped + 1),
          log |-> run.log \cup {LogRecord(g, d)}]

\* one round of the loop of match_games for the game g
MatchOne(run, g, cfg, dry_run) ==
    IF IsNone(run.db.hltb_results[GameKey(g)])
    THEN [run EXCEPT !.stats =
             Counts(run.stats.matched, run.stats.queued, run.stats.skipped + 1)]
    ELSE MatchDecided(run, g,
                      decide_match(g, _load_candidates(
                                          Val(run.db.hltb_results[GameKey(g)]).raw_json), cfg),
                      dry_run)

\* `for row in rows`, the rows in the order of their ids
RECURSIVE MatchLoop(_, _, _, _, _, _)
MatchLoop(run, rows, selected, i, cfg, dry_run) ==
    IF i > Len(rows) THEN run
    ELSE MatchLoop(IF i \in selected THEN MatchOne(run, rows[i], cfg, dry_run) ELSE run,
                   rows, selected, i + 1, cfg, dry_run)

match_games(db, rows, log, cfg, dry_run) ==
    MatchLoop([db |-> db, stats |-> Counts(0, 0, 0), log |-> log],
              rows, UnmatchedGames(rows, db.matches), 1, cfg, dry_run)

\* two games of one title: the second has the first's year and platform family,
\* and so its query key, or has neither
DbGames ==
    {<<[id |-> 1, title_norm |-> HollowKnight, platform_family |-> Some("pc"),
        year |-> Some(2017)],
       [id |-> 2, title_norm |-> HollowKnight, platform_family |-> second[1],
        year |-> second[2]]>> :
        second \in {<<Some("pc"), Some(2017)>>, <<None, None>>}}

MaxStored == 2

\* HLTBCandidate records of the rows of hltb_results
StoredCandidates ==
    {CandidateView(HollowKnight, {"pc"}, Some(2018)).candidate,
     CandidateView(HollowKnigth, {"playstation"}, Some(2018)).candidate,
     CandidateView(Halo, {"pc"}, Some(2017)).candidate}

\* the lists stored, and one that holds a remake
StoredLists ==
    ListsUpTo(StoredCandidates, MaxStored)
    \cup {<<CandidateView(HollowKnightRemakes, {"pc"}, Some(2017)).candidate>>}

\* the defaults; automatic acceptance from 90 with and without the platform check
DbConfigs ==
    {c \in MatchConfigs :
        \/ c.fuzzy_auto = 95 /\ c.year_tolerance = 1 /\ c.require_platform_overlap
        \/ c.fuzzy_auto = 90 /\ c.fuzzy_queue_min = 80 /\ c.year_tolerance = 0}

\* an empty matches or review_queue table: at most one row for each game id, the
\* key that INSERT OR REPLACE and DELETE ... WHERE game_id address
EmptyTable(rows) == [id \in {rows[i].id : i \in 1..Len(rows)} |-> None]

\* the games ingested and the results enrich_games stored for their query keys,
\* or has not stored yet; nothing matched or queued
InitDb ==
    /\ games \in DbGames
    /\ \E stored \in [{GameKey(games[i]) : i \in 1..Len(games)} -> {None} \cup {Some(l) : l \in StoredLists}] :
           hltb_results =
               [k \in DOMAIN stored |->
                   IF IsNone(stored[k]) THEN None
                   ELSE Some(ResultRow(IF k = GameKey(games[1]) THEN 1 ELSE 2,
                                       k[1], Val(stored[k])))]
    /\ matches = EmptyTable(games)
    /\ review_queue = EmptyTable(games)
    /\ config \in DbConfigs
    /\ logged = {}
    /\ stats = None
    /\ last_command = "init"
    /\ game = None
    /\ candidates = <<>>
    /\ decision = None
    /\ stages = <<>>
    /\ again = None
    /\ NoSession

\* the command match, with or without --dry-run
MatchGames ==
    \E dry_run \in BOOLEAN :
        LET run == match_games(Tables(hltb_results, matches, review_queue),
                               games, logged, config, dry_run)
        IN  /\ hltb_results' = run.db.hltb_results
            /\ matches' = run.db.matches
            /\ review_queue' = run.db.review_queue
            /\ logged' = run.log
            /\ stats' = Some(run.stats)
            /\ last_command' = IF dry_run THEN "match_games_dry_run" ELSE "match_games"
            /\ UNCHANGED <<games, config>>
            /\ UNCHANGED callvars
            /\ UNCHANGED sessionvars

\* store_manual_match for a queued game and one of the candidates queued for it
StoreManualMatch ==
    \E i \in 1..Len(games) :
        /\ ~IsNone(review_queue[games[i].id])
        /\ \E idx \in 1..Len(Val(review_queue[games[i].id])) :
               LET db == store_manual_match(Tables(hltb_results, matches, review_queue),
                                            games[i], Val(review_queue[games[i].id])[idx])
               IN  /\ hltb_results' = db.hltb_results
                   /\ matches' = db.matches
                   /\ review_queue' = db.review_queue
        /\ last_command' = "store_manual_match"
        /\ UNCHANGED <<games, config, logged, stats>>
        /\ UNCHANGED callvars
        /\ UNCHANGED sessionvars

NextDb == MatchGames \/ StoreManualMatch

SpecDb == InitDb /\ [][NextDb]_vars

\* the indices handed to choose: the CLI loop passes int(choice) - 1 for a
\* choice of digits, so -1 for "0"; the key bindings pass 0 to 4
MaxIndex == 2

\* the games that have a review_queue row, as indices of the games
QueuedGames(rows, queue) == {i \in 1..Len(rows) : ~IsNone(queue[rows[i].id])}

\* load_review_items: one item for each review_queue row joined with its game.
\* The rows come ORDER BY q.created_at, which rows queued by one run may share,
\* so every order of the items is taken.
load_review_items(rows, queue) ==
    {[k \in 1..Cardinality(QueuedGames(rows, queue)) |->
         [game |-> rows[order[k]], candidates |-> Val(queue[rows[order[k]].id])]] :
        order \in {f \in [1..Cardinality(QueuedGames(rows, queue)) -> QueuedGames(rows, queue)] :
                      \A a, b \in DOMAIN f : a # b => f[a] # f[b]}}

\* del self.items[self.index], the index counted from 0
DeleteAt(list, position) ==
    [k \in 1..(Len(list) - 1) |-> IF k <= position THEN list[k] ELSE list[k + 1]]

\* item.candidates[idx] of Python: a negative idx counts from the end
PyItem(list, idx) == IF idx >= 0 THEN list[idx + 1] ELSE list[Len(list) + idx + 1]

ControllerState(its, position, db, returned) ==
    [items |-> its, index |-> position, db |-> db, returned |-> returned]

\* plausible slip: the index is not pulled back after the last item is deleted
IndexAfterDeleteUnclamped(its, position) == position

\* if self.index >= len(self.items): self.index = max(0, len(self.items) - 1)
IndexAfterDelete(its, position) ==
    IF position >= Len(its) THEN Max2(0, Len(its) - 1) ELSE position

\* ReviewController.choose(idx): self.current and item.candidates[idx] raise
\* IndexError out of range, which leaves the controller as it was
choose(its, position, dry, db, idx) ==
    IF position >= Len(its) \/ position < 0 - Len(its)
    THEN ControllerState(its, position, db, "IndexError")
    ELSE IF idx >= Len(PyItem(its, position).candidates)
    THEN ControllerState(its, position, db, "Invalid selection.")
    ELSE IF idx < 0 - Len(PyItem(its, position).candidates)
    THEN ControllerState(its, position, db, "IndexError")
    ELSE IF dry
    THEN ControllerState(its, position, db, "Dry-run")
    ELSE ControllerState(
             DeleteAt(its, position),
             IndexAfterDelete(DeleteAt(its, position), position),
             store_manual_match(db, PyItem(its, position).game,
                                PyItem(PyItem(its, position).candidates, idx)),
             "Matched")

\* next_item: if self.index < len(self.items) - 1: self.index += 1
next_item(its, position) == IF position < Len(its) - 1 THEN position + 1 ELSE position

\* previous_item: if self.index > 0: self.index -= 1
previous_item(its, position) == IF position > 0 THEN position - 1 ELSE position

\* run_review after a run of match_games: the controller is built over the
\* items loaded from a review queue that is not empty
InitReview ==
    /\ games \in DbGames
    /\ config \in DbConfigs
    /\ \E stored \in [{GameKey(games[i]) : i \in 1..Len(games)} -> {None} \cup {Some(l) : l \in StoredLists}] :
           LET run == match_games(
                          Tables([k \in DOMAIN stored |->
                                     IF IsNone(stored[k]) THEN None
                                     ELSE Some(ResultRow(IF k = GameKey(games[1]) THEN 1 ELSE 2,
                                                         k[1], Val(stored[k])))],
                                 EmptyTable(games), EmptyTable(games)),
                          games, {}, config, FALSE)
           IN  /\ hltb_results = run.db.hltb_results
               /\ matches = run.db.matches
               /\ review_queue = run.db.review_queue
               /\ logged = run.log
               /\ stats = Some(run.stats)
    /\ last_command = "review"
    /\ items \in load_review_items(games, review_queue)
    /\ items # <<>>
    /\ index = 0
    /\ review_dry_run \in BOOLEAN
    /\ last_call = None
    /\ game = None
    /\ candidates = <<>>
    /\ decision = None
    /\ stages = <<>>
    /\ again = None
    /\ cache_files = {}
    /\ fetched = <<>>
    /\ errors = None
    /\ raw = <<>>
    /\ normalized = None
    /\ renormalized = None

NextItem ==
    /\ index' = next_item(items, index)
    /\ last_call' = Some([op |-> "next_item", idx |-> 0, returned |-> "None"])
    /\ UNCHANGED <<items, review_dry_run, config>>
    /\ UNCHANGED <<dbvars, callvars>>
    /\ UNCHANGED <<cache_files, fetched, errors, raw, normalized, renormalized>>

PreviousItem ==
    /\ index' = previous_item(items, index)
    /\ last_call' = Some([op |-> "previous_item", idx |-> 0, returned |-> "None"])
    /\ UNCHANGED <<items, review_dry_run, config>>
    /\ UNCHANGED <<dbvars, callvars>>
    /\ UNCHANGED <<cache_files, fetched, errors, raw, normalized, renormalized>>

\* skip: self.next_item(), then the message by the index
Skip ==
    /\ index' = next_item(items, index)
    /\ last_call' = Some([op |-> "skip", idx |-> 0,
                           returned |-> IF next_item(items, index) >= Len(items)
                                        THEN "End of review queue." ELSE "Skipped."])
    /\ UNCHANGED <<items, review_dry_run, config>>
    /\ UNCHANGED <<dbvars, callvars>>
    /\ UNCHANGED <<cache_files, fetched, errors, raw, normalized, renormalized>>

Choose ==
    \E idx \in (0 - 1)..MaxIndex :
        LET after == choose(items, index, review_dry_run,
                            Tables(hltb_results, matches, review_queue), idx)
        IN  /\ items' = after.items
            /\ index' = after.index
            /\ hltb_results' = after.db.hltb_results
            /\ matches' = after.db.matches
            /\ review_queue' = after.db.review_queue
            /\ last_call' = Some([op |-> "choose", idx |-> idx, returned |-> after.returned])
            /\ UNCHANGED <<games, logged, stats, last_command, review_dry_run, config>>
            /\ UNCHANGED <<callvars, cache_files, fetched, errors, raw, normalized, renormalized>>

NextReview == NextItem \/ PreviousItem \/ Skip \/ Choose

SpecReview == InitReview /\ [][NextReview]_vars

\* the rows of hltb_results, as a set
ResultRows(results) == {Val(results[k]) : k \in {q \in DOMAIN results : ~IsNone(results[q])}}

\* SELECT game_id FROM matches m LEFT JOIN games g ON g.id = m.game_id
\* WHERE g.id IS NULL, as the positions of the rows selected
MissingGames(game_rows, match_rows) ==
    {k \in 1..Len(match_rows) :
        \A i \in 1..Len(game_rows) : game_rows[i].id # match_rows[k].game_id}

\* SELECT hltb_id FROM matches m LEFT JOIN hltb_results h ON h.id = m.hltb_id
\* WHERE h.id IS NULL
MissingResults(result_rows, match_rows) ==
    {k \in 1..Len(match_rows) : \A h \in result_rows : h.id # match_rows[k].hltb_id}

\* plausible slip: `HAVING total > 2`
DuplicatesOverTwo(match_rows) ==
    {match_rows[k].game_id : k \in
        {a \in 1..Len(match_rows) :
            Cardinality({b \in 1..Len(match_rows) :
                            match_rows[b].game_id = match_rows[a].game_id}) > 2}}

\* SELECT game_id, COUNT(*) AS total FROM matches GROUP BY game_id HAVING total > 1
Duplicates(match_rows) ==
    {match_rows[k].game_id : k \in
        {a \in 1..Len(match_rows) :
            Cardinality({b \in 1..Len(match_rows) :
                            match_rows[b].game_id = match_rows[a].game_id}) > 1}}

\* FROM matches m JOIN games g ON g.id = m.game_id JOIN hltb_results h ON
\* h.id = m.hltb_id, as triples of a matches row, its game and its result
Joined(game_rows, result_rows, match_rows) ==
    {<<k, i, h>> \in (1..Len(match_rows)) \X (1..Len(game_rows)) \X result_rows :
        /\ game_rows[i].id = match_rows[k].game_id
        /\ h.id = match_rows[k].hltb_id}

\* the rows of an automatic method whose known years differ by more than the
\* tolerance
YearMismatches(game_rows, result_rows, match_rows, tolerance) ==
    {j \in Joined(game_rows, result_rows, match_rows) :
        /\ match_rows[j[1]].method \in {"exact", "exact_relaxed", "fuzzy_auto"}
        /\ ~IsNone(game_rows[j[2]].year)
        /\ ~IsNone(j[3].year)
        /\ Abs(Val(game_rows[j[2]].year) - Val(j[3].year)) > tolerance}

\* the families of h.platforms.split(","), each token through norm_platform
FamiliesOf(platforms) == {PlatformFamilyOf[platforms[k]] : k \in 1..Len(platforms)}

\* the rows whose game has a platform family that the families of the result,
\* not empty, leave out
PlatformConflicts(game_rows, result_rows, match_rows) ==
    {j \in Joined(game_rows, result_rows, match_rows) :
        /\ ~IsNone(game_rows[j[2]].platform_family)
        /\ FamiliesOf(j[3].platforms) # {}
        /\ Val(game_rows[j[2]].platform_family) \notin FamiliesOf(j[3].platforms)}

\* errors.append(...) once for each row of a query
Repeated(rows, message) == [k \in 1..Cardinality(rows) |-> message]

\* run_validations: the list of errors; it reads through db.query only
run_validations(game_rows, result_rows, match_rows, tolerance) ==
    (IF MissingGames(game_rows, match_rows) # {} THEN <<"missing_games">> ELSE <<>>)
    \o (IF MissingResults(result_rows, match_rows) # {} THEN <<"missing_results">> ELSE <<>>)
    \o (IF Duplicates(match_rows) # {} THEN <<"duplicates">> ELSE <<>>)
    \o Repeated(YearMismatches(game_rows, result_rows, match_rows, tolerance), "year_mismatch")
    \o Repeated(PlatformConflicts(game_rows, result_rows, match_rows), "platform_conflict")

MaxMatchRows == 2

\* what the rows of hltb_results hold
ValidatedLists ==
    {<<CandidateView(HollowKnight, {"pc"}, Some(2017)).candidate>>,
     <<CandidateView(HollowKnigth, {"playstation"}, Some(2018)).candidate>>}

\* a database with both games of DbGames or the first alone, whose matches
\* rows, written with foreign_keys OFF, may reference games and results that
\* are not there, and may repeat a game
InitValidate ==
    /\ games \in DbGames \cup {<<g[1]>> : g \in DbGames}
    /\ \E stored \in [{GameKey(games[i]) : i \in 1..Len(games)} -> {None} \cup {Some(l) : l \in ValidatedLists}] :
           hltb_results =
               [k \in DOMAIN stored |->
                   IF IsNone(stored[k]) THEN None
                   ELSE Some(ResultRow(IF k = GameKey(games[1]) THEN 1 ELSE 2,
                                       k[1], Val(stored[k])))]
    /\ matches \in ListsUpTo([game_id : {1, 2}, hltb_id : {1, 2}, method : {"exact", "manual"}],
                            MaxMatchRows)
    /\ review_queue = EmptyTable(games)
    /\ config \in DbConfigs
    /\ logged = {}
    /\ stats = None
    /\ last_command = "validate"
    /\ errors = None
    /\ game = None
    /\ candidates = <<>>
    /\ decision = None
    /\ stages = <<>>
    /\ again = None
    /\ items = <<>>
    /\ index = 0
    /\ review_dry_run = FALSE
    /\ last_call = None
    /\ cache_files = {}
    /\ fetched = <<>>
    /\ raw = <<>>
    /\ normalized = None
    /\ renormalized = None

\* errors = run_validations(cfg, db)
RunValidations ==
    /\ IsNone(errors)
    /\ errors' = Some(run_validations(games, ResultRows(hltb_results), matches,
                                       config.year_tolerance))
    /\ UNCHANGED <<dbvars, callvars, config>>
    /\ UNCHANGED <<items, index, review_dry_run, last_call, cache_files, fetched, raw, normalized, renormalized>>

SpecValidate == InitValidate /\ [][RunValidations]_vars

\* the query keys of the games
KeysOf(rows) == {GameKey(rows[i]) : i \in 1..Len(rows)}

\* what _fetch_candidates may return for a query: nothing, or a list
FetchResults == {<<>>} \cup ValidatedLists

\* store_results: INSERT OR REPLACE INTO hltb_results for the key of the query
\* the new row gets the id after the largest one
store_results(results, key, found) ==
    [results EXCEPT ![key] =
        Some(ResultRow(IF ResultRows(results) = {} THEN 1
                       ELSE 1 + (CHOOSE n \in {h.id : h \in ResultRows(results)} :
                                    \A h \in ResultRows(results) : h.id <= n),
                       key[1], found))]

\* plausible slip: the candidates fetched are returned without writing the
\* cache file
search_without_cache_write(cache, counts, key, response) ==
    IF ~IsNone(cache[key])
    THEN [candidates |-> Val(cache[key]), from_cache |-> TRUE,
          cache |-> cache, fetched |-> counts]
    ELSE [candidates |-> response, from_cache |-> FALSE,
          cache |-> cache, fetched |-> [counts EXCEPT ![key] = @ + 1]]

\* HLTBClient.search, with the cache directory and the fetches counted after
\* it: the candidates of the cache file of the key if the file
\* exists; else the candidates fetched, written to the file.  The file name is
\* the key with "/" replaced, and no key here holds a "/".
search(cache, counts, key, response) ==
    IF ~IsNone(cache[key])
    THEN [candidates |-> Val(cache[key]), from_cache |-> TRUE,
          cache |-> cache, fetched |-> counts]
    ELSE [candidates |-> response, from_cache |-> FALSE,
          cache |-> [cache EXCEPT ![key] = Some(response)],
          fetched |-> [counts EXCEPT ![key] = @ + 1]]

EnrichStats(processed, skipped, cached, network) ==
    [processed |-> processed, skipped |-> skipped, cached |-> cached, fetched |-> network]

\* one round of the loop of enrich_games from the result of search on
EnrichSearched(run, g, found, dry) ==
    [results |-> IF dry THEN run.results
                 ELSE store_results(run.results, GameKey(g), found.candidates),
     cache |-> found.cache,
     fetched |-> found.fetched,
     stats |-> EnrichStats(run.stats.processed + 1, run.stats.skipped,
                           run.stats.cached + (IF found.from_cache THEN 1 ELSE 0),
                           run.stats.fetched + (IF found.from_cache THEN 0 ELSE 1))]

\* one round of the loop of enrich_games for the game g
EnrichOne(run, g, network, dry) ==
    IF ~IsNone(run.results[GameKey(g)])
    THEN [run EXCEPT !.stats = EnrichStats(run.stats.processed, run.stats.skipped + 1,
                                           run.stats.cached, run.stats.fetched)]
    ELSE EnrichSearched(run, g,
                        search(run.cache, run.fetched, GameKey(g), network[GameKey(g)]),
                        dry)

RECURSIVE EnrichLoop(_, _, _, _, _)
EnrichLoop(run, rows, i, network, dry) ==
    IF i > Len(rows) THEN run
    ELSE EnrichLoop(EnrichOne(run, rows[i], network, dry), rows, i + 1, network, dry)

enrich_games(results, cache, counts, rows, network, dry) ==
    EnrichLoop([results |-> results, cache |-> cache, fetched |-> counts,
                stats |-> EnrichStats(0, 0, 0, 0)],
               rows, 1, network, dry)

\* the games ingested; for each query key a row stored by an earlier run, or
\* none, and a cache file left by an earlier run, or none; no fetch counted yet
InitEnrich ==
    /\ games \in DbGames
    /\ \E stored \in [KeysOf(games) -> {None} \cup {Some(l) : l \in FetchResults}] :
           hltb_results =
               [k \in DOMAIN stored |->
                   IF IsNone(stored[k]) THEN None
                   ELSE Some(ResultRow(IF k = GameKey(games[1]) THEN 1 ELSE 2,
                                       k[1], Val(stored[k])))]
    /\ cache_files \in [KeysOf(games) -> {None} \cup {Some(l) : l \in FetchResults}]
    /\ fetched = [k \in KeysOf(games) |-> 0]
    /\ matches = EmptyTable(games)
    /\ review_queue = EmptyTable(games)
    /\ config \in {c \in DbConfigs : c.fuzzy_auto = 95}
    /\ logged = {}
    /\ stats = None
    /\ last_command = "init"
    /\ game = None
    /\ candidates = <<>>
    /\ decision = None
    /\ stages = <<>>
    /\ again = None
    /\ items = <<>>
    /\ index = 0
    /\ review_dry_run = FALSE
    /\ last_call = None
    /\ errors = None
    /\ raw = <<>>
    /\ normalized = None
    /\ renormalized = None

\* the command enrich, with or without --dry-run
EnrichGames ==
    \E dry \in BOOLEAN :
        \E network \in [KeysOf(games) -> FetchResults] :
            LET run == enrich_games(hltb_results, cache_files, fetched, games, network, dry)
            IN  /\ hltb_results' = run.results
                /\ cache_files' = run.cache
                /\ fetched' = run.fetched
                /\ stats' = Some(run.stats)
                /\ last_command' = IF dry THEN "enrich_games_dry_run" ELSE "enrich_games"
                /\ UNCHANGED <<games, matches, review_queue, logged, config>>
                /\ UNCHANGED <<callvars, items, index, review_dry_run, last_call, errors, raw, normalized, renormalized>>

SpecEnrich == InitEnrich /\ [][EnrichGames]_vars

(***************************************************************************)
(* normalize.norm_title                                                    *)
(***************************************************************************)

EDITION_PATTERNS ==
    <<<<"r", "e", "m", "a", "s", "t", "e", "r">>,
      <<"r", "e", "m", "a", "s", "t", "e", "r", "e", "d">>,
      <<"h", "d">>,
      <<"d", "e", "f", "i", "n", "i", "t", "i", "v", "e">>,
      <<"g", "o", "t", "y">>,
      <<"g", "a", "m", "e", " ", "o", "f", " ", "t", "h", "e", " ", "y", "e", "a", "r">>,
      <<"c", "o", "m", "p", "l", "e", "t", "e">>,
      <<"c", "o", "m", "p", "l", "e", "t", "e", " ", "e", "d", "i", "t", "i", "o", "n">>,
      <<"d", "i", "r", "e", "c", "t", "o", "r", "'", "s", " ", "c", "u", "t">>,
      <<"d", "i", "r", "e", "c", "t", "o", "r", "s", " ", "c", "u", "t">>,
      <<"a", "n", "n", "i", "v", "e", "r", "s", "a", "r", "y">>,
      <<"c", "o", "l", "l", "e", "c", "t", "i", "o", "n">>,
      <<"r", "o", "y", "a", "l">>,
      <<"u", "l", "t", "i", "m", "a", "t", "e">>,
      <<"r", "e", "d", "u", "x">>,
      <<"l", "e", "g", "e", "n", "d", "a", "r", "y">>,
      <<"r", "e", "m", "a", "k", "e">>>>

GENERIC_SUBTITLES == {<<"o", "r", "i", "g", "i", "n", "s">>, <<"l", "e", "g", "e", "n", "d", "s">>, <<"r", "e", "d", "u", "x">>}

\* ROMAN_NUMERAL_MAP.get(roman, roman)
ROMAN_NUMERAL_MAP(roman) ==
    IF roman = <<"i">> THEN <<"1">>
    ELSE IF roman = <<"i", "i">> THEN <<"2">>
    ELSE IF roman = <<"i", "i", "i">> THEN <<"3">>
    ELSE IF roman = <<"i", "v">> THEN <<"4">>
    ELSE IF roman = <<"v">> THEN <<"5">>
    ELSE IF roman = <<"v", "i">> THEN <<"6">>
    ELSE IF roman = <<"v", "i", "i">> THEN <<"7">>
    ELSE IF roman = <<"v", "i", "i", "i">> THEN <<"8">>
    ELSE IF roman = <<"i", "x">> THEN <<"9">>
    ELSE IF roman = <<"x">> THEN <<"1", "0">>
    ELSE roman

\* the trade mark sign U+2122, one character
TradeMarkSign == "U+2122"

\* \w of a regular expression, among the characters of the titles
IsWord(c) == c \in {Alphabet[k] : k \in 2..Len(Alphabet)} \cup {"T", "M", "_"}

\* \b before position i of s
AtBoundary(s, i) ==
    (i > 1 /\ IsWord(s[i - 1])) # (i <= Len(s) /\ IsWord(s[i]))

\* unicodedata.normalize("NFKD", value).encode("ascii", "ignore"): the trade
\* mark sign decomposes to TM, an ASCII character stays
RECURSIVE _normalize_unicode(_)
_normalize_unicode(value) ==
    IF value = <<>> THEN <<>>
    ELSE (IF Head(value) = TradeMarkSign THEN <<"T", "M">> ELSE <<Head(value)>>)
         \o _normalize_unicode(Tail(value))

\* the position of the first closing character after position i, or 0
Closing(s, i, closing) ==
    IF \E j \in (i + 1)..Len(s) : s[j] = closing
    THEN CHOOSE j \in (i + 1)..Len(s) :
             s[j] = closing /\ \A k \in (i + 1)..(j - 1) : s[k] # closing
    ELSE 0

\* BRACKETS_RE.sub(" ", value) from position i on
RECURSIVE BracketsSub(_, _)
BracketsSub(s, i) ==
    IF i > Len(s) THEN <<>>
    ELSE IF s[i] = "[" /\ Closing(s, i, "]") # 0
    THEN <<" ">> \o BracketsSub(s, Closing(s, i, "]") + 1)
    ELSE IF s[i] = "(" /\ Closing(s, i, ")") # 0
    THEN <<" ">> \o BracketsSub(s, Closing(s, i, ")") + 1)
    ELSE <<s[i]>> \o BracketsSub(s, i + 1)

\* re.sub(r"(?i)(?<=\w)tm\b", " ", value) from position i on.  The symbols and
\* the bracketed marks that _strip_trademarks replaces before it are gone
\* after _normalize_unicode and BRACKETS_RE.
RECURSIVE _strip_trademarks(_, _)
_strip_trademarks(s, i) ==
    IF i > Len(s) THEN <<>>
    ELSE IF /\ i > 1
            /\ i < Len(s)
            /\ IsWord(s[i - 1])
            /\ s[i] \in {"t", "T"}
            /\ s[i + 1] \in {"m", "M"}
            /\ AtBoundary(s, i + 2)
    THEN <<" ">> \o _strip_trademarks(s, i + 2)
    ELSE <<s[i]>> \o _strip_trademarks(s, i + 1)

\* str.lower()
Lower(s) == [k \in 1..Len(s) |-> IF s[k] = "T" THEN "t" ELSE IF s[k] = "M" THEN "m" ELSE s[k]]

\* the end of the run of the letters i, v, x that starts at position i
RECURSIVE RomanEnd(_, _)
RomanEnd(s, i) ==
    IF i <= Len(s) /\ s[i] \in {"i", "v", "x"} THEN RomanEnd(s, i + 1) ELSE i

\* ROMAN_RE.sub(repl, value) from position i on
RECURSIVE _replace_roman_numerals(_, _)
_replace_roman_numerals(s, i) ==
    IF i > Len(s) THEN <<>>
    ELSE IF /\ s[i] \in {"i", "v", "x"}
            /\ AtBoundary(s, i)
            /\ AtBoundary(s, RomanEnd(s, i))
    THEN ROMAN_NUMERAL_MAP(SubSeq(s, i, RomanEnd(s, i) - 1))
         \o _replace_roman_numerals(s, RomanEnd(s, i))
    ELSE <<s[i]>> \o _replace_roman_numerals(s, i + 1)

\* re.sub(rf"\b{re.escape(pattern)}\b", " ", lowered) from position i on
RECURSIVE SubPattern(_, _, _)
SubPattern(s, i, pattern) ==
    IF i > Len(s) THEN <<>>
    ELSE IF /\ i + Len(pattern) - 1 <= Len(s)
            /\ \A k \in 1..Len(pattern) : s[i + k - 1] = pattern[k]
            /\ AtBoundary(s, i)
            /\ AtBoundary(s, i + Len(pattern))
    THEN <<" ">> \o SubPattern(s, i + Len(pattern), pattern)
    ELSE <<s[i]>> \o SubPattern(s, i + 1, pattern)

\* for pattern in EDITION_PATTERNS: lowered = re.sub(...), from the k-th on
RECURSIVE RemoveFrom(_, _)
RemoveFrom(lowered, k) ==
    IF k > Len(EDITION_PATTERNS) THEN lowered
    ELSE RemoveFrom(SubPattern(lowered, 1, EDITION_PATTERNS[k]), k + 1)

_remove_edition_markers(value) == RemoveFrom(Lower(value), 1)

\* TITLE_PUNCTUATION_RE.sub(" ", value)
PunctuationSub(s) == [k \in 1..Len(s) |-> IF s[k] \in {Alphabet[a] : a \in 1..Len(Alphabet)} THEN s[k] ELSE " "]

\* [part for part in WHITESPACE_RE.split(value) if part], in order
RECURSIVE Parts(_, _, _)
Parts(s, i, word) ==
    IF i > Len(s) THEN (IF word = <<>> THEN <<>> ELSE <<word>>)
    ELSE IF s[i] = " "
         THEN (IF word = <<>> THEN <<>> ELSE <<word>>) \o Parts(s, i + 1, <<>>)
         ELSE Parts(s, i + 1, Append(word, s[i]))

\* " ".join(parts)
RECURSIVE Join(_)
Join(parts) ==
    IF parts = <<>> THEN <<>>
    ELSE IF Len(parts) = 1 THEN parts[1]
    ELSE parts[1] \o <<" ">> \o Join(Tail(parts))

norm_title(title) ==
    Join(SelectSeq(
        Parts(PunctuationSub(
                  _remove_edition_markers(
                      _replace_roman_numerals(
                          Lower(_strip_trademarks(
                                    BracketsSub(_normalize_unicode(title), 1), 1)), 1))),
              1, <<>>),
        LAMBDA part : part \notin GENERIC_SUBTITLES))

MaxPieces == 3

\* what the titles are put together from: words, two of them an edition marker
\* together and one alone, a roman numeral, and what may stand between words
TitlePieces ==
    {<<"d", "i", "r", "e", "c", "t", "o", "r", "s">>, <<"c", "u", "t">>, <<"h", "d">>, <<"x">>,
     <<" ">>, <<"-">>, <<"_">>, <<"(", "x", ")">>, <<TradeMarkSign>>}

RECURSIVE Concat(_)
Concat(pieces) == IF pieces = <<>> THEN <<>> ELSE Head(pieces) \o Concat(Tail(pieces))

RawTitles == {Concat(l) : l \in ListsUpTo(TitlePieces, MaxPieces)}

InitTitle ==
    /\ raw \in RawTitles
    /\ normalized = None
    /\ renormalized = None
    /\ config \in {c \in DbConfigs : c.fuzzy_auto = 95}
    /\ game = None
    /\ candidates = <<>>
    /\ decision = None
    /\ stages = <<>>
    /\ again = None
    /\ NoDatabase
    /\ items = <<>>
    /\ index = 0
    /\ review_dry_run = FALSE
    /\ last_call = None
    /\ cache_files = {}
    /\ fetched = <<>>
    /\ errors = None

\* normalized = norm_title(raw)
Normalize ==
    /\ IsNone(normalized)
    /\ normalized' = Some(norm_title(raw))
    /\ UNCHANGED <<raw, renormalized, config>>
    /\ UNCHANGED <<callvars, dbvars>>
    /\ UNCHANGED <<items, index, review_dry_run, last_call, cache_files, fetched, errors>>

\* renormalized = norm_title(normalized)
NormalizeAgain ==
    /\ ~IsNone(normalized)
    /\ IsNone(renormalized)
    /\ renormalized' = Some(norm_title(Val(normalized)))
    /\ UNCHANGED <<raw, normalized, config>>
    /\ UNCHANGED <<callvars, dbvars>>
    /\ UNCHANGED <<items, index, review_dry_run, last_call, cache_files, fetched, errors>>

NextTitle == Normalize \/ NormalizeAgain

SpecTitle == InitTitle /\ [][NextTitle]_vars

Returned == ~IsNone(decision)

(***************************************************************************)
(* One call of decide_match on a candidate list longer than the five       *)
(* entries a queue payload keeps                                           *)
(***************************************************************************)
MaxQueued == 6

\* two candidates of equal score that differ in year, one of low score, and one
\* that carries a collision token
QueuedViews ==
    {CandidateView(HollowKnigth, {"pc"}, Some(2017)),
     CandidateView(HollowKnigth, {"pc"}, Some(2018)),
     CandidateView(Halo, {"pc"}, Some(2017)),
     CandidateView(HollowKnightRemakes, {"pc"}, Some(2017))}

QueuedLists == ListsUpTo(QueuedViews, MaxQueued)

InitQueued ==
    /\ game \in {g \in GameRows : g.platform_family = Some("pc") /\ g.year = Some(2017)}
    /\ candidates \in QueuedLists
    /\ config \in {c \in MatchConfigs : c.year_tolerance = 1 /\ c.require_platform_overlap}
    /\ decision = None
    /\ stages = <<>>
    /\ again = None
    /\ NoDatabase
    /\ NoSession

SpecQueued == InitQueued /\ [][Next]_vars

(***************************************************************************)
(* One call of decide_match on candidates whose year may be 0: the year an *)
(* HLTB entry without a release date carries (release_world), and what     *)
(* _parse_year returns for the digits 0000                                 *)
(***************************************************************************)
ReleaseYears == {None, Some(0), Some(2017), Some(2018)}

ReleaseViews ==
    {CandidateView(HollowKnight, {"pc"}, y) : y \in ReleaseYears}
    \cup {CandidateView(HollowKnigth, {"pc"}, Some(2017))}

ReleaseLists == ListsUpTo(ReleaseViews, MaxCandidates)

InitRelease ==
    /\ game \in GameRows
    /\ candidates \in ReleaseLists
    /\ config \in MatchConfigs
    /\ decision = None
    /\ stages = <<>>
    /\ again = None
    /\ NoDatabase
    /\ NoSession

SpecRelease == InitRelease /\ [][Next]_vars

(***************************************************************************)
(* Two calls of decide_match, the second with the objects the first call   *)
(* was given                                                               *)
(***************************************************************************)
InitTwice ==
    /\ game \in GameRows
    /\ candidates \in ListsUpTo(QueuedViews, MaxCandidates)
    /\ config \in MatchConfigs
    /\ decision = None
    /\ stages = <<>>
    /\ again = None
    /\ NoDatabase
    /\ NoSession

\* again = decide_match(game, candidates, config), after the first call returned
DecideAgain ==
    /\ ~IsNone(decision)
    /\ IsNone(again)
    /\ LET run == decide_run(game, candidates, config)
       IN  /\ again' = Some(run.decision)
           /\ candidates' = CandidatesAfter(game, candidates, run.decision)
    /\ UNCHANGED <<game, config, decision, stages>>
    /\ UNCHANGED dbvars
    /\ UNCHANGED sessionvars

NextTwice == Decide \/ DecideAgain

SpecTwice == InitTwice /\ [][NextTwice]_vars

(***************************************************************************)
(* Properties of decide_match.  The conditions below restate the words of  *)
(* the properties over the inputs of the call; they do not use the         *)
(* operators of the matching stages.                                       *)
(***************************************************************************)
Result == Val(decision)

\* year distance as specified: 0 when either year is missing
YearGap(i) ==
    IF game.year = None \/ candidates[i].candidate.year = None THEN 0
    ELSE Abs(game.year[1] - candidates[i].candidate.year[1])

\* platform overlap as specified
Overlaps(i) ==
    \/ game.platform_family = None
    \/ candidates[i].families = {}
    \/ game.platform_family[1] \in candidates[i].families

SameTitle(i) == candidates[i].title_norm = game.title_norm

ExactFits == {i \in 1..Len(candidates) : SameTitle(i) /\ YearGap(i) = 0 /\ Overlaps(i)}

RelaxedFits ==
    {i \in 1..Len(candidates) :
        /\ SameTitle(i)
        /\ YearGap(i) <= config.year_tolerance
        /\ (game.platform_family # None => Overlaps(i))}

\* the titles drawn that contain remake, collection, remaster, redux or definitive
EditionTitles ==
    {t \in CandidateTitles :
        \E token \in collision_tokens :
            \E k \in 0..(Len(t) - Len(token)) :
                \A j \in 1..Len(token) : t[k + j] = token[j]}

HasEditionToken(i) == candidates[i].title_norm \in EditionTitles

CollisionDetected == _detect_collision(game, candidates)

ScoreOf(i) == similarity(game.title_norm, candidates[i].title_norm)

\* the candidates with the highest score, and the first of them
TopScored == {i \in 1..Len(candidates) : \A k \in 1..Len(candidates) : ScoreLeq(ScoreOf(k), ScoreOf(i))}

FirstTop == CHOOSE i \in TopScored : \A k \in TopScored : i <= k

FuzzyReached == Returned /\ Len(stages) = 4 /\ stages[4] = "fuzzy"

\* C1: with an empty candidate list decide_match returns skip with reason
\* no_candidates, no method, no candidate and no queue payload, and runs none of
\* the collision, deterministic and fuzzy stages.
C1_EmptyListSkips ==
    (Returned /\ candidates = <<>>) =>
        /\ Result.status = "skip"
        /\ Result.reason = Some("no_candidates")
        /\ Result.method = None
        /\ Result.candidate = None
        /\ Result.queue_payload = None
        /\ stages = <<>>

C1_Witness ==
    /\ Returned
    /\ candidates = <<>>
    /\ game.platform_family = Some("pc")
    /\ config.fuzzy_queue_min = 0

\* C2: a match decision carries one of the input candidates and one of the
\* methods exact, exact_relaxed, fuzzy_auto, and carries no reason and no queue
\* payload.
C2_MatchCarriesCandidateAndMethod ==
    (Returned /\ Result.status = "match") =>
        /\ Result.candidate # None
        /\ \E i \in 1..Len(candidates) : candidates[i] = Result.candidate[1]
        /\ Result.method \in {Some("exact"), Some("exact_relaxed"), Some("fuzzy_auto")}
        /\ Result.reason = None
        /\ Result.queue_payload = None

C2_Witness ==
    /\ Returned
    /\ Result.status = "match"
    /\ Result.method = Some("fuzzy_auto")
    /\ Len(candidates) = 2

\* C3: a queue decision carries a non-empty ranked payload and a reason code,
\* and carries no candidate and no method, on every path to queue.
C3_QueueCarriesPayloadAndReason ==
    (Returned /\ Result.status = "queue") =>
        /\ Result.queue_payload # None
        /\ Result.queue_payload[1] # <<>>
        /\ Result.reason # None
        /\ Result.candidate = None
        /\ Result.method = None

C3_Witness ==
    /\ Returned
    /\ Result.status = "queue"
    /\ Result.reason = Some("platform_mismatch")

\* C4: decide_match returns skip only for an empty candidate list; for a
\* non-empty list the result is match or queue, and a fuzzy-stage
\* skip(low_score) is returned as queue with reason low_score and a payload.
C4_SkipOnlyWhenEmpty ==
    Returned =>
        /\ (Result.status = "skip" => candidates = <<>>)
        /\ (candidates # <<>> => Result.status \in {"match", "queue"})
        /\ (FuzzyReached /\ _fuzzy_match(game, candidates, config).status = "skip" =>
                /\ Result.status = "queue"
                /\ Result.reason = Some("low_score")
                /\ Result.queue_payload # None
                /\ Result.queue_payload[1] # <<>>)

C4_Witness ==
    /\ FuzzyReached
    /\ _fuzzy_match(game, candidates, config).status = "skip"
    /\ Result.status = "queue"

C6_TieNeverAutoResolved ==
    (Returned /\ (Cardinality(ExactFits) >= 2 \/ Cardinality(RelaxedFits) >= 2)) =>
        Result.status = "queue"

C8_RelaxedMatch ==
    Returned =>
        /\ (/\ candidates # <<>>
            /\ ~CollisionDetected
            /\ Cardinality(ExactFits) # 1
            /\ Cardinality(RelaxedFits) = 1
            => /\ Result.status = "match"
               /\ Result.method = Some("exact_relaxed")
               /\ Result.confidence = 9500
               /\ Result.candidate = Some(candidates[CHOOSE i \in RelaxedFits : TRUE]))
        /\ (Cardinality(RelaxedFits) # 1 => Result.method # Some("exact_relaxed"))

C8_Witness ==
    /\ Returned
    /\ Len(candidates) = 2
    /\ Cardinality(ExactFits) = 0
    /\ Cardinality(RelaxedFits) = 1
    /\ Result.method = Some("exact_relaxed")

\* C9: in the fuzzy stage, when the best score s is positive and at least
\* fuzzy_auto: a required platform overlap that fails gives queue
\* platform_mismatch, whatever the years; otherwise a year distance above the
\* tolerance gives queue year_distance; otherwise the best candidate is matched
\* with method fuzzy_auto and confidence s/100 rounded to 4 decimals.
C9_FuzzyAuto ==
    (/\ FuzzyReached
     /\ ScoreLess(<<0, 1>>, ScoreOf(FirstTop))
     /\ ScoreAtLeast(ScoreOf(FirstTop), config.fuzzy_auto))
    => IF config.require_platform_overlap /\ ~Overlaps(FirstTop)
       THEN Result.status = "queue" /\ Result.reason = Some("platform_mismatch")
       ELSE IF YearGap(FirstTop) > config.year_tolerance
       THEN Result.status = "queue" /\ Result.reason = Some("year_distance")
       ELSE /\ Result.status = "match"
            /\ Result.method = Some("fuzzy_auto")
            /\ Result.candidate = Some(candidates[FirstTop])
            /\ LET s == ScoreOf(FirstTop)
               IN  2 * Abs(Result.confidence * s[2] - 100 * s[1]) <= s[2]

C9_Witness ==
    /\ FuzzyReached
    /\ ScoreAtLeast(ScoreOf(FirstTop), config.fuzzy_auto)
    /\ config.require_platform_overlap
    /\ ~Overlaps(FirstTop)
    /\ YearGap(FirstTop) > config.year_tolerance
    /\ Result.reason = Some("platform_mismatch")

\* C10: for the game hollow knight (pc, 2017) and the single candidate hollow
\* knight ({pc}, 2017), with fuzzy_auto 90 and fuzzy_queue_min 80, the result is
\* match with method fuzzy_auto.
C10_HollowKnightFuzzyAuto ==
    (/\ Returned
     /\ game.title_norm = HollowKnight
     /\ game.platform_family = Some("pc")
     /\ game.year = Some(2017)
     /\ candidates = <<CandidateView(HollowKnight, {"pc"}, Some(2017))>>
     /\ config.fuzzy_auto = 90
     /\ config.fuzzy_queue_min = 80)
    => Result.status = "match" /\ Result.method = Some("fuzzy_auto")

\* the payload of a queue decision
PayloadOf(q) == Val(q.queue_payload)

\* C11: in the fuzzy stage, when the best score s is positive, at least
\* fuzzy_queue_min and below fuzzy_auto, the result is queue with reason
\* fuzzy_ambiguous and a ranked payload, never a match.
C11_FuzzyAmbiguous ==
    FuzzyReached =>
        LET s == ScoreOf(FirstTop)
        IN  (/\ ScoreLess(<<0, 1>>, s)
             /\ ScoreAtLeast(s, config.fuzzy_queue_min)
             /\ ~ScoreAtLeast(s, config.fuzzy_auto))
            => /\ Result.status = "queue"
               /\ Result.reason = Some("fuzzy_ambiguous")
               /\ Result.queue_payload # None
               /\ PayloadOf(Result) # <<>>
               /\ PayloadOf(Result)[1].score = s

C11_Witness ==
    /\ FuzzyReached
    /\ config.fuzzy_auto = 95
    /\ config.fuzzy_queue_min = 90
    /\ Len(candidates) = 2
    /\ ScoreOf(FirstTop) = <<1200, 13>>
    /\ Result.reason = Some("fuzzy_ambiguous")

\* C12: for every validated config the reason low_score is reported only when
\* the highest similarity score among the candidates is strictly below
\* fuzzy_queue_min.
C12_LowScoreOnlyBelowMin ==
    (Returned /\ Result.reason = Some("low_score")) =>
        \A i \in 1..Len(candidates) : ~ScoreAtLeast(ScoreOf(i), config.fuzzy_queue_min)

\* C15: _platform_overlap is true when the game has no known platform family;
\* otherwise, for a candidate with a non-empty family set it is true exactly when
\* the game's family is a member, and for an empty family set it is true.
C15_PlatformOverlap ==
    Returned =>
        \A i \in 1..Len(candidates) :
            LET overlap == _platform_overlap(game, candidates[i])
            IN  /\ (game.platform_family = None => overlap)
                /\ (game.platform_family # None /\ candidates[i].families # {} =>
                        (overlap <=> game.platform_family[1] \in candidates[i].families))
                /\ (game.platform_family # None /\ candidates[i].families = {} => overlap)

C15_Witness ==
    /\ Returned
    /\ Len(candidates) = 2
    /\ game.platform_family = Some("pc")
    /\ candidates[1].families = {"playstation"}
    /\ candidates[2].families = {}
    /\ ~_platform_overlap(game, candidates[1])
    /\ _platform_overlap(game, candidates[2])

\* the candidates whose year, or the game's, is missing
YearMissing(i) == game.year = None \/ candidates[i].candidate.year = None

\* C16: when the game's year or the candidate's year is null the year distance
\* is 0: the candidate is kept by the exact and the relaxed filter whenever its
\* title and platform pass, and as the best fuzzy candidate it is never queued
\* with reason year_distance; decide_match returns a decision for every such
\* input.
C16_MissingYearNeverBlocks ==
    Returned =>
        /\ \A i \in 1..Len(candidates) :
                YearMissing(i) =>
                    _year_distance(game.year, candidates[i].candidate.year) = 0
        /\ \A i \in ExactFits :
                YearMissing(i) =>
                    /\ i \in ExactSurvivors(game, candidates)
                    /\ i \in RelaxedSurvivors(game, candidates, config.year_tolerance)
        /\ ((\E i \in 1..Len(candidates) : YearMissing(i)) =>
                Result.status \in {"match", "queue"})
        /\ (game.platform_family = None /\ candidates # <<>> =>
                Result.status \in {"match", "queue"})
        /\ (FuzzyReached /\ YearMissing(FirstTop) => Result.reason # Some("year_distance"))

C16_Witness ==
    /\ FuzzyReached
    /\ game.year = Some(2017)
    /\ game.platform_family = None
    /\ candidates[FirstTop].candidate.year = None
    /\ config.year_tolerance = 0
    /\ Result.status = "match"
    /\ Result.candidate = Some(candidates[FirstTop])

\* C17: in the fuzzy stage, when several candidates share the highest score, the
\* first of them in the input list is the one checked against the thresholds,
\* the platform and the year, and the one returned on a match.
C17_FirstOfTiedBest ==
    FuzzyReached =>
        LET tied == TopScored
            first == CHOOSE i \in tied : \A k \in tied : i <= k
        IN  (Cardinality(tied) >= 2 /\ ScoreLess(<<0, 1>>, ScoreOf(first)))
            => /\ (Result.status = "match" => Result.candidate = Some(candidates[first]))
               /\ (ScoreAtLeast(ScoreOf(first), config.fuzzy_auto) =>
                       /\ (Result.reason = Some("platform_mismatch") <=>
                               (config.require_platform_overlap /\ ~Overlaps(first)))
                       /\ (Result.reason = Some("year_distance") <=>
                               /\ ~(config.require_platform_overlap /\ ~Overlaps(first))
                               /\ YearGap(first) > config.year_tolerance))

C17_Witness ==
    /\ FuzzyReached
    /\ Cardinality(TopScored) = 2
    /\ candidates[1] # candidates[2]
    /\ YearGap(1) <= config.year_tolerance
    /\ YearGap(2) > config.year_tolerance
    /\ Result.status = "match"
    /\ Result.candidate = Some(candidates[1])

\* the payload entry of candidate i as specified: its title, normalized title,
\* similarity score, year and platforms
EntryOf(i) ==
    [title |-> candidates[i].candidate.title, title_norm |-> candidates[i].title_norm,
     score |-> ScoreOf(i), year |-> candidates[i].candidate.year,
     platforms |-> candidates[i].candidate.platforms]

\* the entries of score s, in the order of the sequence
WithScore(entries, s) == SelectSeq(entries, LAMBDA e : e.score = s)

\* C13: a queue payload has min(5, n) entries; each is built from a distinct
\* input candidate and carries its similarity score; the scores do not increase
\* along the payload; candidates of equal score keep their input order; and no
\* omitted candidate scores higher than an included one.
C13_PayloadRanked ==
    (Returned /\ Result.status = "queue") =>
        LET payload == PayloadOf(Result)
            n == Len(candidates)
            entries == [i \in 1..n |-> EntryOf(i)]
            scores == {ScoreOf(i) : i \in 1..n}
        IN  /\ Len(payload) = IF n < 5 THEN n ELSE 5
            /\ \A p \in 1..Len(payload) : \E i \in 1..n : payload[p] = entries[i]
            /\ \A p, q \in 1..Len(payload) :
                    p < q => ScoreLeq(payload[q].score, payload[p].score)
            /\ \A s \in scores :
                    LET kept == WithScore(payload, s)
                        all == WithScore(entries, s)
                    IN  /\ Len(kept) <= Len(all)
                        /\ kept = SubSeq(all, 1, Len(kept))
                        /\ (\E p \in 1..Len(payload) : ScoreLess(payload[p].score, s)) =>
                               Len(kept) = Len(all)

C13_Witness ==
    /\ Returned
    /\ Result.status = "queue"
    /\ Len(candidates) = 6
    /\ Len(PayloadOf(Result)) = 5
    /\ candidates[1].title_norm = Halo
    /\ candidates[2] # candidates[3]
    /\ ScoreOf(2) = ScoreOf(3)
    /\ ScoreLess(ScoreOf(2), ScoreOf(6))
    /\ \A p \in 1..5 : ScoreLess(ScoreOf(1), PayloadOf(Result)[p].score)

\* the candidates that carry the game's normalized title, and their non-null years
SameTitled == {i \in 1..Len(candidates) : SameTitle(i)}

KnownYears == {candidates[i].candidate.year : i \in SameTitled} \ {None}

\* C14: when no candidate's normalized title contains an edition token,
\* _detect_collision is true exactly when more than one candidate carries the
\* game's normalized title and their non-null years are not all identical.
C14_TitleCollisionRule ==
    (Returned /\ \A i \in 1..Len(candidates) : ~HasEditionToken(i)) =>
        (_detect_collision(game, candidates) <=>
            (Cardinality(SameTitled) > 1 /\ Cardinality(KnownYears) > 1))

ReasonCodes ==
    {"no_candidates", "collision", "platform_mismatch", "year_distance",
     "fuzzy_ambiguous", "low_score"}

MethodCodes == {"exact", "exact_relaxed", "fuzzy_auto", "manual"}

\* C18: every reason on a decision that decide_match returned to match_games is
\* one of no_candidates, collision, platform_mismatch, year_distance,
\* fuzzy_ambiguous, low_score, and every method in the matches table, written
\* by match_games or by a manual choice, is one of exact, exact_relaxed,
\* fuzzy_auto, manual.
C18_ClosedCodes ==
    /\ \A l \in logged :
           /\ l.reason # None => l.reason[1] \in ReasonCodes
           /\ l.status # "match" => l.reason # None
    /\ \A id \in DOMAIN matches :
           matches[id] # None => matches[id][1].method \in MethodCodes

C18_Witness ==
    /\ \E l \in logged : l.reason = Some("collision")
    /\ \E l \in logged : l.method = Some("fuzzy_auto")
    /\ matches[1] # None
    /\ matches[1][1].method = "manual"
    /\ matches[2] # None
    /\ matches[2][1].method = "fuzzy_auto"

Chosen == Val(Result.candidate)

ChosenYearGap ==
    IF game.year = None \/ Chosen.candidate.year = None THEN 0
    ELSE Abs(game.year[1] - Chosen.candidate.year[1])

ChosenConflicts ==
    /\ game.platform_family # None
    /\ Chosen.families # {}
    /\ game.platform_family[1] \notin Chosen.families

\* C25: every match returned by decide_match, for every validated config,
\* selects a candidate whose year distance to the game is at most
\* year_tolerance and whose family set does not conflict with the game's known
\* platform family.
C25_MatchWithinToleranceAndPlatform ==
    (Returned /\ Result.status = "match") =>
        /\ ChosenYearGap <= config.year_tolerance
        /\ ~ChosenConflicts

\* C28: whenever the method is exact_relaxed the exact filter had no survivor,
\* the game's year and the chosen candidate's year are both known and differ by
\* at least 1 and at most year_tolerance; with year_tolerance 0 the method is
\* never exact_relaxed.
C28_RelaxedOnlyForYearGap ==
    (Returned /\ Result.method = Some("exact_relaxed")) =>
        /\ ExactFits = {}
        /\ game.year # None
        /\ Chosen.candidate.year # None
        /\ 1 <= ChosenYearGap
        /\ ChosenYearGap <= config.year_tolerance
        /\ config.year_tolerance # 0

C28_Witness ==
    /\ Returned
    /\ Result.method = Some("exact_relaxed")
    /\ Len(candidates) = 2
    /\ game.platform_family = Some("pc")
    /\ Chosen.families = {}
    /\ ChosenYearGap = 1

\* the hltb_results row a matches row references (JOIN hltb_results h ON
\* h.id = m.hltb_id), without its raw_json
ReferencedData(results, m) ==
    LET h == CHOOSE r \in {Val(results[k]) : k \in {q \in DOMAIN results : ~IsNone(results[q])}} :
                 r.id = m.hltb_id
    IN  [title |-> h.title, platforms |-> h.platforms, year |-> h.year]

\* C27: a step that stores a match for one game leaves the title, platforms
\* and year of the hltb_results row that another game's existing matches row
\* references as they were.
C27_OtherMatchesUntouched ==
    [][\A j \in DOMAIN matches :
          ~IsNone(matches[j]) =>
              ReferencedData(hltb_results', Val(matches[j]))
                  = ReferencedData(hltb_results, Val(matches[j]))]_vars

C21_DryRunWritesNothing ==
    [][last_command' = "match_games_dry_run" =>
          /\ hltb_results' = hltb_results
          /\ matches' = matches
          /\ review_queue' = review_queue
          /\ stats' = Some(match_games(Tables(hltb_results, matches, review_queue),
                                       games, logged, config, FALSE).stats)]_vars

C21_Witness ==
    /\ last_command = "match_games_dry_run"
    /\ ~IsNone(stats)
    /\ Val(stats).matched = 1
    /\ Val(stats).queued = 1
    /\ \A i \in DOMAIN matches : IsNone(matches[i]) /\ IsNone(review_queue[i])

\* the item the controller shows, and the call just made
Current == items[index + 1]

\* C29: choose(idx) with idx outside 0..len(current.candidates)-1 returns
\* 'Invalid selection.', stores no match and removes no item.
C29_InvalidSelectionRejected ==
    [][(/\ ~IsNone(last_call')
        /\ Val(last_call').op = "choose"
        /\ items # <<>>
        /\ Val(last_call').idx \notin 0..(Len(Current.candidates) - 1))
       => /\ Val(last_call').returned = "Invalid selection."
          /\ matches' = matches
          /\ items' = items]_vars

\* C30: after every call 0 <= index < len(items) while items is not empty; a
\* choose that reports a match removes the current item and no other; a choose
\* of a dry run leaves items, index and the tables as they were.
C30_IndexInRange ==
    [][/\ items' # <<>> => (0 <= index' /\ index' < Len(items'))
       /\ (~IsNone(last_call') /\ Val(last_call').op = "choose"
              /\ Val(last_call').returned = "Matched")
          => (~review_dry_run /\ items' = DeleteAt(items, index))
       /\ (~IsNone(last_call') /\ Val(last_call').op = "choose" /\ review_dry_run)
          => (/\ items' = items
              /\ index' = index
              /\ hltb_results' = hltb_results
              /\ matches' = matches
              /\ review_queue' = review_queue)]_vars

C30_Witness ==
    /\ ~IsNone(last_call)
    /\ Val(last_call).op = "choose"
    /\ Val(last_call).returned = "Matched"
    /\ Len(items) = 1
    /\ index = 0
    /\ items[1].game.id = 1
    /\ ~IsNone(matches[2])
    /\ Val(matches[2]).method = "manual"

\* some matches row names a game id, or an hltb id, that no row has, or two
\* matches rows name one game
Dangling ==
    \/ \E k \in 1..Len(matches) : \A i \in 1..Len(games) : games[i].id # matches[k].game_id
    \/ \E k \in 1..Len(matches) :
           \A q \in DOMAIN hltb_results :
               IsNone(hltb_results[q]) \/ Val(hltb_results[q]).id # matches[k].hltb_id
    \/ \E a, b \in 1..Len(matches) : a # b /\ matches[a].game_id = matches[b].game_id

\* C23: a call of run_validations leaves games, hltb_results and matches as
\* they were and returns a list that is not empty whenever a matches row
\* references a missing game or a missing hltb result or a game has two rows.
C23_ValidationsReportDangling ==
    [][~IsNone(errors') =>
          /\ games' = games
          /\ hltb_results' = hltb_results
          /\ matches' = matches
          /\ review_queue' = review_queue
          /\ Dangling => Val(errors') # <<>>]_vars

C23_Witness ==
    /\ errors = Some(<<"duplicates">>)
    /\ Len(games) = 2
    /\ Len(matches) = 2

\* the games whose query key has a row of hltb_results
GamesWithResults == {i \in 1..Len(games) : ~IsNone(hltb_results[GameKey(games[i])])}

C24_NormTitleIdempotent ==
    ~IsNone(renormalized) => renormalized = normalized

====
